---- MODULE Spec2Model ----
(***************************************************************************)
(* Lifecycle and background orchestration of the analytics service         *)
(* (src/analytics/main.py): the lifespan context manager, the two          *)
(* fire-and-forget periodic coroutines, the /health handler and the        *)
(* executive-report submission handler.                                    *)
(*                                                                         *)
(* Everything runs on one asyncio event loop, so a step of the model is    *)
(* the code a coroutine executes between two suspension points (awaits).   *)
(* The outcome of every awaited external call (database, Redis, services)  *)
(* is an input of the step that resumes the coroutine.                     *)
(*                                                                         *)
(* The request handlers are module-level coroutines that read the global   *)
(* handles without consulting the position of lifespan(), so a request is  *)
(* modelled as able to arrive in every lifecycle phase.                    *)
(***************************************************************************)
EXTENDS Naturals, Sequences, FiniteSets

VARIABLES
    phase,              \* position of lifespan()
    trace,              \* what lifespan() has done so far, in order
    startupError,       \* the exception that left lifespan() before the yield
    shutdownError,      \* the exception that left lifespan() after the yield
    db,                 \* global db
    redis_client,       \* global redis_client
    analytics_service,  \* global analytics_service is not None
    prediction_service, \* global prediction_service is not None
    report_service,     \* global report_service is not None
    jobPc,              \* position of each background coroutine
    jobErrors,          \* logger.error calls of each background coroutine
    inFlight,           \* executions of each job's action that have not returned
    jobOutcome,         \* how each job's last finished execution ended
    hpc,                \* position of the health_check() request
    hDb,                \* what the database reported to that request
    hRedis,             \* what Redis reported to that request
    hResult,            \* the HealthResponse the request returned
    report              \* the generate_executive_report() request

vars == <<phase, trace, startupError, shutdownError, db, redis_client,
          analytics_service, prediction_service, report_service,
          jobPc, jobErrors, inFlight, jobOutcome, hpc, hDb, hRedis, hResult, report>>

lifespanVars == <<phase, trace, startupError, shutdownError, db, redis_client,
                  analytics_service, prediction_service, report_service>>
jobVars      == <<jobPc, jobErrors, inFlight, jobOutcome>>
healthVars   == <<hpc, hDb, hRedis, hResult>>

\* Saturation point of the per-job error counter.
MaxErrors == 2

Jobs == {"model_training", "metrics_collection"}

OtherJob(j) == IF j = "model_training" THEN "metrics_collection" ELSE "model_training"

StartupPhases  == {"not_started", "db_connecting", "redis_pinging", "startup_failed"}
ShutdownPhases == {"closing_redis", "disconnecting_db", "stopped", "shutdown_failed"}

----------------------------------------------------------------------------
(* lifespan *)

\* The statements between a successful Redis ping and the yield.
ServiceEvents == <<"AnalyticsService", "PredictionService", "ReportService">>
TaskEvents    == <<"create_task:model_training", "create_task:metrics_collection">>

Init ==
    /\ phase = "not_started"
    /\ trace = <<>>
    /\ startupError = "none"
    /\ shutdownError = "none"
    /\ db = "None"
    /\ redis_client = "None"
    /\ analytics_service = FALSE
    /\ prediction_service = FALSE
    /\ report_service = FALSE
    /\ jobPc = [j \in Jobs |-> "none"]
    /\ jobErrors = [j \in Jobs |-> 0]
    /\ inFlight = [j \in Jobs |-> 0]
    /\ jobOutcome = [j \in Jobs |-> "none"]
    /\ hpc = "idle"
    /\ hDb = "unasked"
    /\ hRedis = "unasked"
    /\ hResult = [status |-> "none", services |-> [x \in {} |-> "none"]]
    /\ report = [pc |-> "idle", resp |-> "none", shutdown |-> FALSE, connected |-> FALSE]

\* db = Database(url); await db.connect()   -- suspended in connect
lifespan_start ==
    /\ phase = "not_started"
    /\ db' = "created"
    /\ phase' = "db_connecting"
    /\ trace' = Append(trace, "Starting")
    /\ UNCHANGED <<startupError, shutdownError, redis_client, analytics_service,
                   prediction_service, report_service>>
    /\ UNCHANGED <<jobVars, healthVars, report>>

\* db.connect() returns or raises; on return redis.from_url() builds the
\* client (it raises on a malformed URL) and the coroutine suspends in ping.
lifespan_db_connect_return(ok, urlOk) ==
    /\ phase = "db_connecting"
    /\ IF ~ok
       THEN /\ phase' = "startup_failed"
            /\ startupError' = "db_connect"
            /\ UNCHANGED <<db, redis_client, trace>>
       ELSE /\ db' = "connected"
            /\ trace' = Append(trace, "Database connected")
            /\ IF urlOk
               THEN /\ redis_client' = "open"
                    /\ phase' = "redis_pinging"
                    /\ UNCHANGED startupError
               ELSE /\ phase' = "startup_failed"
                    /\ startupError' = "redis_from_url"
                    /\ UNCHANGED redis_client
    /\ UNCHANGED <<shutdownError, analytics_service, prediction_service, report_service>>
    /\ UNCHANGED <<jobVars, healthVars, report>>

\* Services, tasks, metrics server, yield: one run without suspension.
FinishStartup(portOk, tr) ==
    /\ analytics_service' = TRUE
    /\ prediction_service' = TRUE
    /\ report_service' = TRUE
    /\ jobPc' = [j \in Jobs |-> "created"]
    /\ IF portOk
       THEN /\ phase' = "ready"
            /\ trace' = tr \o ServiceEvents \o TaskEvents \o <<"metrics_server", "ready">>
            /\ UNCHANGED startupError
       ELSE /\ phase' = "startup_failed"
            /\ startupError' = "metrics_server"
            /\ trace' = tr \o ServiceEvents \o TaskEvents

\* Variant: a failed ping is swallowed and startup carries on.
lifespan_redis_ping_return_swallow(ok, portOk) ==
    /\ phase = "redis_pinging"
    /\ FinishStartup(portOk, IF ok THEN Append(trace, "Redis connected") ELSE trace)
    /\ UNCHANGED <<shutdownError, db, redis_client>>
    /\ UNCHANGED <<jobErrors, inFlight, jobOutcome, healthVars, report>>

\* redis_client.ping() returns or raises.
lifespan_redis_ping_return(ok, portOk) ==
    /\ phase = "redis_pinging"
    /\ IF ok
       THEN FinishStartup(portOk, Append(trace, "Redis connected"))
       ELSE /\ phase' = "startup_failed"
            /\ startupError' = "redis_ping"
            /\ UNCHANGED <<trace, analytics_service, prediction_service,
                           report_service, jobPc>>
    /\ UNCHANGED <<shutdownError, db, redis_client>>
    /\ UNCHANGED <<jobErrors, inFlight, jobOutcome, healthVars, report>>

\* The code after the yield starts: await redis_client.close()
lifespan_shutdown ==
    /\ phase = "ready"
    /\ phase' = "closing_redis"
    /\ trace' = trace \o <<"Shutting down", "redis_client.close">>
    /\ UNCHANGED <<startupError, shutdownError, db, redis_client, analytics_service,
                   prediction_service, report_service>>
    /\ UNCHANGED <<jobVars, healthVars, report>>

\* redis_client.close() returns or raises; on return: await db.disconnect()
lifespan_redis_close_return(ok) ==
    /\ phase = "closing_redis"
    /\ IF ok
       THEN /\ redis_client' = "closed"
            /\ phase' = "disconnecting_db"
            /\ trace' = Append(trace, "db.disconnect")
            /\ UNCHANGED shutdownError
       ELSE /\ phase' = "shutdown_failed"
            /\ shutdownError' = "redis_close"
            /\ UNCHANGED <<redis_client, trace>>
    /\ UNCHANGED <<startupError, db, analytics_service, prediction_service, report_service>>
    /\ UNCHANGED <<jobVars, healthVars, report>>

\* db.disconnect() returns or raises.
lifespan_db_disconnect_return(ok) ==
    /\ phase = "disconnecting_db"
    /\ IF ok
       THEN /\ db' = "disconnected"
            /\ phase' = "stopped"
            /\ trace' = Append(trace, "shutdown completed")
            /\ UNCHANGED shutdownError
       ELSE /\ phase' = "shutdown_failed"
            /\ shutdownError' = "db_disconnect"
            /\ UNCHANGED <<db, trace>>
    /\ UNCHANGED <<startupError, redis_client, analytics_service, prediction_service,
                   report_service>>
    /\ UNCHANGED <<jobVars, healthVars, report>>

----------------------------------------------------------------------------
(* background_model_training / background_metrics_collection *)

\* The service global each loop tests before it awaits its action.
JobService(j) == IF j = "model_training" THEN prediction_service ELSE analytics_service

\* Variant: a timer fires the next iteration while the action is in flight.
TickDueOverlap(j) == jobPc[j] \in {"created", "sleeping", "running"} /\ inFlight[j] < 2

\* An iteration begins when the task first runs or its sleep ends: the sleep
\* follows the awaited action in the same loop body.
TickDue(j) == jobPc[j] \in {"created", "sleeping"}

\* Variant: no except clause, a raising action ends the coroutine.
AfterActionNoExcept(ok) == IF ok THEN "sleeping" ELSE "dead"

\* try/except Exception around the action, then asyncio.sleep.
AfterAction(ok) == "sleeping"

\* Top of the while loop up to the await of the action.
background_tick(j) ==
    /\ TickDue(j)
    /\ IF JobService(j)
       THEN /\ jobPc' = [jobPc EXCEPT ![j] = "running"]
            /\ inFlight' = [inFlight EXCEPT ![j] = @ + 1]
       ELSE /\ jobPc' = [jobPc EXCEPT ![j] = "sleeping"]
            /\ UNCHANGED inFlight
    /\ jobOutcome' = [jobOutcome EXCEPT ![j] = "none"]
    /\ UNCHANGED <<jobErrors, lifespanVars, healthVars, report>>

\* The action returns or raises; the loop logs a failure and sleeps.
background_action_return(j, ok) ==
    /\ jobPc[j] = "running"
    /\ inFlight[j] > 0
    /\ inFlight' = [inFlight EXCEPT ![j] = @ - 1]
    /\ jobPc' = [jobPc EXCEPT ![j] = AfterAction(ok)]
    /\ jobOutcome' = [jobOutcome EXCEPT ![j] = IF ok THEN "ok" ELSE "failed"]
    /\ jobErrors' = [jobErrors EXCEPT ![j] = IF ok \/ @ = MaxErrors THEN @ ELSE @ + 1]
    /\ UNCHANGED <<lifespanVars, healthVars, report>>

----------------------------------------------------------------------------
(* health_check *)

\* Database.health_check() reports true only on a handle whose connect
\* succeeded and that was not disconnected since; it may also report false,
\* raise, or never return.
DbHealthOutcomes == IF db = "connected" THEN {"true", "false", "raise", "hang"}
                    ELSE {"false", "raise", "hang"}

\* redis_client.ping() opens a connection on demand, also after close().
RedisPingOutcomes == {"ok", "raise", "hang"}

Available(svc) == IF svc THEN "available" ELSE "unavailable"

\* "connected" if db and await db.health_check() else "disconnected"
DbStatus(rep) == IF rep = "true" THEN "connected" ELSE "disconnected"

\* redis_status starts "connected" and only a raising ping changes it.
RedisStatus(rep) == IF rep = "raise" THEN "disconnected" ELSE "connected"

OverallStatus(dbs, rs) ==
    IF dbs = "connected" /\ rs = "connected" THEN "healthy" ELSE "unhealthy"

\* The HealthResponse of the try block.
HealthResponse(dbs, rs) ==
    [status   |-> OverallStatus(dbs, rs),
     services |-> [database   |-> dbs,
                   redis      |-> rs,
                   analytics  |-> Available(analytics_service),
                   prediction |-> Available(prediction_service),
                   reporting  |-> Available(report_service)]]

\* The HealthResponse of the outer except block.
FailedHealthResponse == [status |-> "unhealthy", services |-> [x \in {} |-> "none"]]

\* The Redis part of the handler, entered with the database report known.
RedisCheck(dbRep) ==
    /\ hDb' = dbRep
    /\ IF redis_client = "None"
       THEN /\ hRedis' = "absent"
            /\ hResult' = HealthResponse(DbStatus(dbRep), RedisStatus("absent"))
            /\ hpc' = "done"
       ELSE /\ hRedis' = "pending"
            /\ hpc' = "await_redis"
            /\ UNCHANGED hResult

\* A request arrives; with a database handle it suspends in db.health_check().
health_check_start ==
    /\ hpc \in {"idle", "done"}
    /\ IF db = "None"
       THEN RedisCheck("absent")
       ELSE /\ hpc' = "await_db"
            /\ hDb' = "pending"
            /\ hRedis' = "unasked"
            /\ hResult' = [status |-> "none", services |-> [x \in {} |-> "none"]]
    /\ UNCHANGED <<lifespanVars, jobVars, report>>

\* db.health_check() returns, raises (outer except), or never returns.
health_check_db_return(out) ==
    /\ hpc = "await_db"
    /\ out \in DbHealthOutcomes
    /\ CASE out = "raise" -> /\ hDb' = "raise"
                             /\ hResult' = FailedHealthResponse
                             /\ hpc' = "done"
                             /\ UNCHANGED hRedis
         [] out = "hang"  -> /\ hDb' = "hang"
                             /\ hpc' = "hung"
                             /\ UNCHANGED <<hRedis, hResult>>
         [] OTHER         -> RedisCheck(out)
    /\ UNCHANGED <<lifespanVars, jobVars, report>>

\* redis_client.ping() returns, raises (inner except), or never returns.
health_check_redis_return(out) ==
    /\ hpc = "await_redis"
    /\ out \in RedisPingOutcomes
    /\ hRedis' = out
    /\ IF out = "hang"
       THEN /\ hpc' = "hung"
            /\ UNCHANGED hResult
       ELSE /\ hResult' = HealthResponse(DbStatus(hDb), RedisStatus(out))
            /\ hpc' = "done"
    /\ UNCHANGED <<hDb, lifespanVars, jobVars>>
    /\ UNCHANGED report

----------------------------------------------------------------------------
(* generate_executive_report *)

ShuttingDown == phase \in ShutdownPhases

DependenciesConnected == db = "connected" /\ redis_client = "open"

\* Depends(get_report_service): 503 when the global is None, else the
\* handler awaits service.generate_executive_report_async().
generate_executive_report_submit ==
    /\ report.pc \in {"idle", "done"}
    /\ IF ~report_service
       THEN report' = [pc |-> "done", resp |-> "unavailable",
                       shutdown |-> ShuttingDown, connected |-> DependenciesConnected]
       ELSE report' = [pc |-> "dispatched", resp |-> "pending",
                       shutdown |-> ShuttingDown, connected |-> DependenciesConnected]
    /\ UNCHANGED <<lifespanVars, jobVars, healthVars>>

\* The report service returns a task id (accepted) or raises (HTTP 500).
generate_executive_report_return(ok) ==
    /\ report.pc = "dispatched"
    /\ report' = [report EXCEPT !.pc = "done",
                                !.resp = IF ok THEN "accepted" ELSE "error"]
    /\ UNCHANGED <<lifespanVars, jobVars, healthVars>>

----------------------------------------------------------------------------

Next ==
    \/ lifespan_start
    \/ \E ok \in BOOLEAN, urlOk \in BOOLEAN : lifespan_db_connect_return(ok, urlOk)
    \/ \E ok \in BOOLEAN, portOk \in BOOLEAN : lifespan_redis_ping_return(ok, portOk)
    \/ lifespan_shutdown
    \/ \E ok \in BOOLEAN : lifespan_redis_close_return(ok)
    \/ \E ok \in BOOLEAN : lifespan_db_disconnect_return(ok)
    \/ \E j \in Jobs : background_tick(j)
    \/ \E j \in Jobs, ok \in BOOLEAN : background_action_return(j, ok)
    \/ health_check_start
    \/ \E out \in {"true", "false", "raise", "hang"} : health_check_db_return(out)
    \/ \E out \in RedisPingOutcomes : health_check_redis_return(out)
    \/ generate_executive_report_submit
    \/ \E ok \in BOOLEAN : generate_executive_report_return(ok)

Spec == Init /\ [][Next]_vars

\* asyncio.sleep() returns after its delay and a created task gets its first
\* run, so a due iteration of either loop eventually begins.
FairSpec == Spec /\ \A j \in Jobs : WF_vars(background_tick(j))

TypeOK ==
    /\ phase \in StartupPhases \cup ShutdownPhases \cup {"ready"}
    /\ db \in {"None", "created", "connected", "disconnected"}
    /\ redis_client \in {"None", "open", "closed"}
    /\ jobPc \in [Jobs -> {"none", "created", "running", "sleeping"}]
    /\ jobErrors \in [Jobs -> 0..MaxErrors]
    /\ hpc \in {"idle", "await_db", "await_redis", "hung", "done"}
    /\ report.pc \in {"idle", "dispatched", "done"}

----------------------------------------------------------------------------
(* Properties *)

\* Position of an event in the lifespan trace, 0 when it has not happened.
Index(e) == IF \E i \in DOMAIN trace : trace[i] = e
            THEN CHOOSE i \in DOMAIN trace : trace[i] = e
            ELSE 0

Before(a, b) == Index(a) > 0 /\ Index(a) < Index(b)

Elems(seq) == {seq[i] : i \in DOMAIN seq}

AnyService == analytics_service \/ prediction_service \/ report_service
AllServices == analytics_service /\ prediction_service /\ report_service

ConnectErrors == {"db_connect", "redis_from_url", "redis_ping"}

\* C1: startup runs in strict order: the database connect and the Redis ping
\* succeed before any service is constructed, the services are constructed
\* before either periodic job is started, and the process is ready only
\* after both jobs were started; when a dependency connect fails no service
\* is constructed, no job is started and the process is never ready.
C1_StartupOrder ==
    /\ \A s \in Elems(ServiceEvents) :
          Index(s) > 0 => Before("Database connected", s) /\ Before("Redis connected", s)
    /\ AnyService => /\ Index("Database connected") > 0
                     /\ Index("Redis connected") > 0
                     /\ \A s \in Elems(ServiceEvents) : Index(s) > 0
    /\ \A t \in Elems(TaskEvents) :
          Index(t) > 0 => \A s \in Elems(ServiceEvents) : Before(s, t)
    /\ \A j \in Jobs : jobPc[j] # "none" => /\ AllServices
                                            /\ \A t \in Elems(TaskEvents) : Index(t) > 0
    /\ Index("ready") > 0 => \A t \in Elems(TaskEvents) : Before(t, "ready")
    /\ phase \in ShutdownPhases \cup {"ready"} =>
          /\ Index("ready") > 0
          /\ \A j \in Jobs : jobPc[j] # "none"
    /\ startupError \in ConnectErrors =>
          /\ phase = "startup_failed"
          /\ ~AnyService
          /\ \A j \in Jobs : jobPc[j] = "none"
          /\ Index("ready") = 0

\* The process is ready with every startup step done.
C1_Witness ==
    /\ phase = "ready"
    /\ AllServices
    /\ \A j \in Jobs : jobPc[j] = "created"
    /\ trace[Len(trace)] = "ready"

\* C2: a failed execution of a job's action is logged and the job is
\* rescheduled: after any number of failures the loop is alive and a later
\* tick of the job fires, and the failure leaves the other job's schedule
\* as it was.
C2_FailureKeepsSchedule ==
    /\ [](\A j \in Jobs : jobPc[j] # "dead")
    /\ [][\A j \in Jobs :
            (jobPc[j] = "running" /\ jobOutcome'[j] = "failed") =>
                /\ jobPc'[j] = "sleeping"
                /\ jobErrors'[j] > jobErrors[j] \/ jobErrors[j] = MaxErrors
                /\ jobPc'[OtherJob(j)] = jobPc[OtherJob(j)]
                /\ jobErrors'[OtherJob(j)] = jobErrors[OtherJob(j)]]_vars
    /\ \A j \in Jobs : [](jobOutcome[j] = "failed" => <>(jobPc[j] = "running"))

\* A tick of model training is in flight after MaxErrors logged failures of
\* that job, while metrics collection has just failed and is still scheduled.
C2_Witness ==
    /\ jobErrors["model_training"] = MaxErrors
    /\ jobPc["model_training"] = "running"
    /\ jobOutcome["metrics_collection"] = "failed"
    /\ jobPc["metrics_collection"] = "sleeping"

\* C3: at most one execution of a job's action is in flight; while one job's
\* action has not returned the other job can still start a tick and
\* complete it.
C3_NoOverlappingTicks ==
    \A j \in Jobs :
        /\ inFlight[j] <= 1
        /\ (jobPc[OtherJob(j)] = "running" /\ jobPc[j] \in {"created", "sleeping"})
              => ENABLED background_tick(j)
        /\ (jobPc[OtherJob(j)] = "running" /\ jobPc[j] = "running")
              => ENABLED background_action_return(j, TRUE)

\* Model training's first action is still in flight while metrics collection
\* has started and completed several ticks of its own.
C3_Witness ==
    /\ jobPc["model_training"] = "running"
    /\ jobErrors["model_training"] = 0
    /\ inFlight["model_training"] = 1
    /\ jobPc["metrics_collection"] = "sleeping"
    /\ jobOutcome["metrics_collection"] = "ok"
    /\ jobErrors["metrics_collection"] = MaxErrors

\* C4: a health query's overall status is Healthy exactly when the database
\* and Redis both reported reachable to that query; it is never Healthy with
\* a handle absent or a ping that did not succeed.
C4_HealthyIffAllReachable ==
    hpc = "done" => (hResult.status = "healthy" <=> (hDb = "true" /\ hRedis = "ok"))

\* C5: a dependency whose ping raised appears in the per-dependency map as
\* "disconnected" and the overall status is Unhealthy, while a dependency
\* whose ping succeeded in the same query is reported "connected".
C5_PingErrorReported ==
    hpc = "done" =>
        /\ hDb = "raise" => /\ "database" \in DOMAIN hResult.services
                            /\ hResult.services["database"] = "disconnected"
                            /\ hResult.status = "unhealthy"
        /\ hRedis = "raise" => /\ "redis" \in DOMAIN hResult.services
                               /\ hResult.services["redis"] = "disconnected"
                               /\ hResult.status = "unhealthy"
        /\ hDb = "true" => /\ "database" \in DOMAIN hResult.services
                           /\ hResult.services["database"] = "connected"
        /\ hRedis = "ok" => /\ "redis" \in DOMAIN hResult.services
                            /\ hResult.services["redis"] = "connected"

\* C6: once the cleanup part of lifespan has begun, no new tick of either
\* periodic job fires.
C6_NoTickAfterShutdown ==
    [][ShuttingDown => \A j \in Jobs : inFlight'[j] <= inFlight[j]]_vars

\* C7: on shutdown Redis is closed before the database is disconnected, a
\* failing disconnect is tolerated, every handle gets its disconnect attempt
\* and no error leaves the shutdown.
C7_ShutdownTolerant ==
    /\ shutdownError = "none"
    /\ phase # "shutdown_failed"
    /\ Index("db.disconnect") > 0 => Before("redis_client.close", "db.disconnect")
    /\ phase = "stopped" => /\ Index("redis_client.close") > 0
                            /\ Index("db.disconnect") > 0

\* C8: a health query never raises: with a raising database check, a raising
\* Redis ping or a handle that does not exist it returns a snapshot whose
\* status is Unhealthy.
C8_HealthDegradesNeverThrows ==
    hpc = "done" =>
        /\ hResult.status \in {"healthy", "unhealthy"}
        /\ (hDb \in {"absent", "raise"} \/ hRedis \in {"absent", "raise"})
              => hResult.status = "unhealthy"

\* C9: no health query blocks on a ping that never returns, and a hung
\* database check does not keep Redis from being pinged.
C9_NeverBlocksOnHungPing ==
    /\ hpc # "hung"
    /\ hDb = "hang" => hRedis \in {"absent", "ok", "raise", "hang"}

\* C10: a report submitted once shutdown has begun is answered unavailable
\* and not dispatched; work is dispatched only while the service is
\* constructed and its dependencies are connected.
C10_NoDispatchDuringShutdown ==
    /\ (report.pc # "idle" /\ report.shutdown) => report.resp = "unavailable"
    /\ report.resp \in {"pending", "accepted", "error"} =>
          (~report.shutdown /\ report.connected)

====
